---- MODULE Spec2Model ----
(***************************************************************************)
(* A model of process_ucmr4.py: the UCMR 4 cleaning script.                *)
(*                                                                         *)
(* Text cells are sequences of one-character strings, so that str.strip,   *)
(* str.lower, str.capitalize, the regex replacement of [0-9]+ and the      *)
(* code-point ordering of group keys are computed, not assumed.  Numeric   *)
(* cells are exact rationals <<n, d>> with d > 0 in lowest terms; a        *)
(* missing cell (pandas NaN) is <<0, 0>> in a numeric column and the       *)
(* one-element sequence <<"NaN">> in a text column; a State cell that      *)
(* read_csv parsed as a number is <<"int">> followed by its digits.  The   *)
(* binary rounding of float64 is not modelled.                             *)
(***************************************************************************)
EXTENDS Integers, Sequences, FiniteSets, TLC

VARIABLES pc, analytical_df, user_decisions, response, saved, ret

vars == <<pc, analytical_df, user_decisions, response, saved, ret>>

(***************************************************************************)
(* Bounds of the model.                                                    *)
(***************************************************************************)
\* The largest number of rows of the concatenated input table.
MaxRecords == 2

(***************************************************************************)
(* Numbers.                                                                *)
(***************************************************************************)
NaN == <<0, 0>>

IsNaN(x) == x[2] = 0

Abs(n) == IF n < 0 THEN -n ELSE n

RECURSIVE GCD(_, _)
GCD(a, b) == IF b = 0 THEN a ELSE GCD(b, a % b)

Norm(x) ==
    IF x[2] = 0 THEN NaN
    ELSE LET g == GCD(Abs(x[1]), x[2]) IN <<x[1] \div g, x[2] \div g>>

Num(n) == <<n, 1>>

\* x / k for a positive integer k; NaN / k is NaN.
DivBy(x, k) == IF IsNaN(x) THEN NaN ELSE Norm(<<x[1], x[2] * k>>)

Add(x, y) ==
    IF IsNaN(x) \/ IsNaN(y) THEN NaN
    ELSE Norm(<<x[1] * y[2] + y[1] * x[2], x[2] * y[2]>>)

\* x <= y; every comparison with NaN is false.
Leq(x, y) == ~IsNaN(x) /\ ~IsNaN(y) /\ x[1] * y[2] <= y[1] * x[2]

Less(x, y) == Leq(x, y) /\ x # y

(***************************************************************************)
(* Text.                                                                   *)
(***************************************************************************)
NaNStr == <<"NaN">>

Digits == <<"0", "1", "2", "3", "4", "5", "6", "7", "8", "9">>

Uppers == <<"A", "B", "C", "D", "E", "F", "G", "H", "I", "J", "K", "L", "M",
            "N", "O", "P", "Q", "R", "S", "T", "U", "V", "W", "X", "Y", "Z">>

Lowers == <<"a", "b", "c", "d", "e", "f", "g", "h", "i", "j", "k", "l", "m",
            "n", "o", "p", "q", "r", "s", "t", "u", "v", "w", "x", "y", "z">>

Range(s) == {s[i] : i \in DOMAIN s}

IndexIn(s, c) == CHOOSE i \in DOMAIN s : s[i] = c

IsDigit(c) == c \in Range(Digits)

IsSpace(c) == c \in {" ", "\n", "\t", "\r"}

\* The code point of a character.
Ord(c) ==
    IF c \in Range(Digits) THEN 47 + IndexIn(Digits, c)
    ELSE IF c \in Range(Uppers) THEN 64 + IndexIn(Uppers, c)
    ELSE IF c \in Range(Lowers) THEN 96 + IndexIn(Lowers, c)
    ELSE IF c = " " THEN 32
    ELSE IF c = "\n" THEN 10
    ELSE IF c = "\t" THEN 9
    ELSE 13

LowerChar(c) == IF c \in Range(Uppers) THEN Lowers[IndexIn(Uppers, c)] ELSE c

UpperChar(c) == IF c \in Range(Lowers) THEN Uppers[IndexIn(Lowers, c)] ELSE c

\* str.lower()
Lower(s) == [i \in DOMAIN s |-> LowerChar(s[i])]

\* str.capitalize()
Capitalize(s) ==
    [i \in DOMAIN s |-> IF i = 1 THEN UpperChar(s[i]) ELSE LowerChar(s[i])]

\* s < t in code-point order, the order Python gives strings.
StrLess(s, t) ==
    \E i \in 1..Len(t) :
        /\ \A j \in 1..(i - 1) : j <= Len(s) /\ s[j] = t[j]
        /\ (i > Len(s) \/ Ord(s[i]) < Ord(t[i]))

RECURSIVE LStrip(_)
LStrip(s) ==
    IF s = <<>> THEN <<>>
    ELSE IF IsSpace(Head(s)) THEN LStrip(Tail(s)) ELSE s

RECURSIVE RStrip(_)
RStrip(s) ==
    IF s = <<>> THEN <<>>
    ELSE IF IsSpace(s[Len(s)]) THEN RStrip(SubSeq(s, 1, Len(s) - 1)) ELSE s

\* Series.str.strip(): a missing cell stays missing.
Strip(s) == IF s = NaNStr THEN NaNStr ELSE RStrip(LStrip(s))

TribalPWS == <<"T", "r", "i", "b", "a", "l", " ", "P", "W", "S">>

RECURSIVE DropDigits(_)
DropDigits(s) ==
    IF s = <<>> THEN <<>>
    ELSE IF IsDigit(Head(s)) THEN DropDigits(Tail(s)) ELSE s

RECURSIVE SubDigits(_)
SubDigits(s) ==
    IF s = <<>> THEN <<>>
    ELSE IF IsDigit(Head(s)) THEN TribalPWS \o SubDigits(DropDigits(Tail(s)))
    ELSE <<Head(s)>> \o SubDigits(Tail(s))

\* A cell holding a number, not text.
IsIntCell(s) == s # <<>> /\ s[1] = "int"

IsTextCell(s) == s # NaNStr /\ ~IsIntCell(s)

\* Series.str.replace(r'[0-9]+', 'Tribal PWS', regex=True): every maximal run
\* of digits of a text cell becomes the label; a missing cell stays missing
\* and a cell that is no text (a number in an object column) becomes missing.
ReplaceState(s) ==
    IF s = NaNStr \/ IsIntCell(s) THEN NaNStr ELSE SubDigits(s)

(***************************************************************************)
(* Program constants.                                                      *)
(***************************************************************************)
NonDetectPrompt == "non-detect representation"

SpatialPrompt == "spatial aggregation"

\* The keys of PROMPTS_DICT, in the order the dictionary lists them.
PromptKeys == <<NonDetectPrompt, SpatialPrompt>>

PolicyZero == <<"0">>

PolicyHalf == <<"h", "a", "l", "f">>

PolicyMrl == <<"m", "r", "l">>

ModeNone == <<"n", "o", "n", "e">>

ModeState == <<"s", "t", "a", "t", "e">>

ModeRegion == <<"r", "e", "g", "i", "o", "n">>

PROMPTS_DICT ==
    (NonDetectPrompt :> <<PolicyZero, PolicyHalf, PolicyMrl>>)
        @@ (SpatialPrompt :> <<ModeNone, ModeState, ModeRegion>>)

ColState == <<"S", "t", "a", "t", "e">>

ColRegion == <<"R", "e", "g", "i", "o", "n">>

SignNonDetect == "<"

(***************************************************************************)
(* process_nondetects                                                      *)
(***************************************************************************)
Return(v) == [kind |-> "return", value |-> v]

\* Control reaches the end of the function body: Python returns None.
ReturnNone == [kind |-> "none"]

\* Variant: a '<' row that carries a reported value is treated as a detection.
process_nondetects_detect_first(row, assumption) ==
    IF row.Sign = SignNonDetect /\ IsNaN(row.Value)
    THEN IF assumption = PolicyZero THEN Return(Num(0))
         ELSE IF assumption = PolicyHalf THEN Return(DivBy(row.MRL, 2))
         ELSE IF assumption = PolicyMrl THEN Return(row.MRL)
         ELSE ReturnNone
    ELSE Return(row.Value)

process_nondetects(row, assumption) ==
    IF row.Sign = SignNonDetect
    THEN IF assumption = PolicyZero THEN Return(Num(0))
         ELSE IF assumption = PolicyHalf THEN Return(DivBy(row.MRL, 2))
         ELSE IF assumption = PolicyMrl THEN Return(row.MRL)
         ELSE ReturnNone
    ELSE Return(row.Value)

\* The cell DataFrame.apply stores for a row: None in a numeric column is NaN.
CellOf(outcome) == IF outcome.kind = "return" THEN outcome.value ELSE NaN

(***************************************************************************)
(* get_response                                                            *)
(***************************************************************************)
\* Variant: every response is taken as found.
ListIndexAcceptsAll(l, x) == TRUE

\* accepted_responses.index(response) finds the value (no ValueError).
ListIndexFinds(l, x) == \E i \in DOMAIN l : l[i] = x

(***************************************************************************)
(* get_aggregated_df                                                       *)
(***************************************************************************)
\* df[agg_value] of one row; the only call passes 'State' or 'Region'.
Column(row, agg_value) == IF agg_value = ColRegion THEN row.Region ELSE row.State

KeyIsNA(k, agg_value) == IF agg_value = ColRegion THEN IsNaN(k) ELSE k = NaNStr

KeyLess(a, b, agg_value) ==
    IF agg_value = ColRegion THEN Less(a, b) ELSE StrLess(a, b)

GroupOf(row, agg_value) == <<Column(row, agg_value), row.Contaminant>>

\* groupby leaves out every row with a missing value in a key column.
KeptRows(df, agg_value) ==
    {i \in DOMAIN df :
        /\ ~KeyIsNA(Column(df[i], agg_value), agg_value)
        /\ df[i].Contaminant # NaNStr}

GroupKeys(df, agg_value) ==
    {GroupOf(df[i], agg_value) : i \in KeptRows(df, agg_value)}

GroupLess(g, h, agg_value) ==
    \/ KeyLess(g[1], h[1], agg_value)
    \/ g[1] = h[1] /\ StrLess(g[2], h[2])

RECURSIVE SortGroups(_, _)
SortGroups(S, agg_value) ==
    IF S = {} THEN <<>>
    ELSE LET m == CHOOSE g \in S :
                      \A h \in S \ {g} : GroupLess(g, h, agg_value)
         IN <<m>> \o SortGroups(S \ {m}, agg_value)

\* Variant: groupby(sort=False), the groups in order of first appearance.
RECURSIVE FirstSeen(_, _, _)
FirstSeen(df, agg_value, i) ==
    IF i > Len(df) THEN <<>>
    ELSE LET g == GroupOf(df[i], agg_value)
             rest == FirstSeen(df, agg_value, i + 1)
         IN IF i \in KeptRows(df, agg_value)
                /\ \A j \in 1..(i - 1) :
                       j \in KeptRows(df, agg_value) => GroupOf(df[j], agg_value) # g
            THEN <<g>> \o rest
            ELSE rest

GroupOrderFirstSeen(df, agg_value) == FirstSeen(df, agg_value, 1)

\* groupby(sort=True): the groups in ascending order of (key, Contaminant).
GroupOrder(df, agg_value) == SortGroups(GroupKeys(df, agg_value), agg_value)

Members(df, agg_value, g) ==
    {i \in KeptRows(df, agg_value) : GroupOf(df[i], agg_value) = g}

\* The values a reduction reads: missing results are skipped.
Present(df, M) == {i \in M : ~IsNaN(df[i].Processed)}

GroupMin(df, M) ==
    LET P == Present(df, M)
    IN IF P = {} THEN NaN
       ELSE LET i == CHOOSE i \in P : \A j \in P : Leq(df[i].Processed, df[j].Processed)
            IN df[i].Processed

GroupMax(df, M) ==
    LET P == Present(df, M)
    IN IF P = {} THEN NaN
       ELSE LET i == CHOOSE i \in P : \A j \in P : Leq(df[j].Processed, df[i].Processed)
            IN df[i].Processed

RECURSIVE SumOver(_, _)
SumOver(df, P) ==
    IF P = {} THEN Num(0)
    ELSE LET i == CHOOSE i \in P : TRUE
         IN Add(df[i].Processed, SumOver(df, P \ {i}))

GroupMean(df, M) ==
    LET P == Present(df, M)
    IN IF P = {} THEN NaN ELSE DivBy(SumOver(df, P), Cardinality(P))

get_aggregated_df(df, agg_value) ==
    LET order == GroupOrder(df, agg_value)
    IN [n \in DOMAIN order |->
           LET M == Members(df, agg_value, order[n])
           IN [Key |-> order[n][1],
               Contaminant |-> order[n][2],
               Min |-> GroupMin(df, M),
               Average |-> GroupMean(df, M),
               Max |-> GroupMax(df, M)]]

(***************************************************************************)
(* Inputs: the rows read from the raw files and what the operator types.   *)
(***************************************************************************)
\* With lineterminator='\r' a file whose lines end in \r\n leaves the line
\* feed at the front of the first column.
RawPWSID == <<"\n", "P", "1">>

StateCA == <<"C", "A">>

StateAZ == <<"A", "Z">>

StateWA == <<"W", "A">>

State03 == <<"0", "3">>

\* The EPA region of each State value of the input domain.
RegionOf(state) ==
    IF state = NaNStr THEN NaN
    ELSE IF state = State03 THEN Num(3)
    ELSE IF state = StateWA THEN Num(10)
    ELSE Num(9)

ContaminantX == <<"X">>

ContaminantY == <<"Y">>

\* (sign, MRL, reported value) of a non-detect, of a non-detect whose MRL
\* field is empty, and of a detection.
Measurements ==
    {[Sign |-> "<", MRL |-> Num(1), Value |-> NaN],
     [Sign |-> "<", MRL |-> NaN, Value |-> NaN],
     [Sign |-> "=", MRL |-> Num(1), Value |-> Num(5)]}

RowsOver(states, contaminants, measurements) ==
    {[PWSID |-> RawPWSID, State |-> s, Region |-> RegionOf(s), Contaminant |-> c,
      Sign |-> m.Sign, MRL |-> m.MRL, Value |-> m.Value] :
        s \in states, c \in contaminants, m \in measurements}

\* Rows of the raw files.
RawRows ==
    RowsOver({State03, StateCA, TribalPWS},
             {ContaminantX, ContaminantY}, Measurements)

\* Rows of the raw file behind the tables get_aggregated_df is exercised on,
\* on its own (no State of digits: one file gives every table they reach).
AggRows ==
    RowsOver({StateAZ, StateCA, StateWA, NaNStr},
             {ContaminantX, ContaminantY, NaNStr}, Measurements)

\* Rows handed to process_nondetects when it is exercised on its own.
ResolveRows ==
    RowsOver({StateCA}, {ContaminantX},
             [Sign : {"<", "=", "NaN"},
              MRL : {Num(0), Num(1), Num(3), NaN},
              Value : {Num(0), Num(5), <<7, 2>>, NaN}])

\* The assumption arguments process_nondetects is exercised with.
Assumptions ==
    {PolicyZero, PolicyHalf, PolicyMrl,
     <<"H", "A", "L", "F">>, <<"z", "e", "r", "o">>, <<>>}

Tables(rows) == UNION {[1..n -> rows] : n \in 1..MaxRecords}

\* The ways of laying the rows of a table out over one or more files.
RECURSIVE Splits(_)
Splits(t) ==
    IF t = <<>> THEN {<<>>}
    ELSE UNION {{<<SubSeq(t, 1, k)>> \o rest :
                    rest \in Splits(SubSeq(t, k + 1, Len(t)))} : k \in 1..Len(t)}

\* The lists of files matched by the glob: at most MaxRecords rows in all.
FileLists(rows) == UNION {Splits(t) : t \in Tables(rows)}

\* What the operator may type at a prompt.
TypedInputs ==
    {<<"0">>, <<"H", "A", "L", "F">>, <<"m", "r", "l">>,
     <<"n", "o", "n", "e">>, <<"S", "t", "a", "t", "e">>,
     <<"r", "e", "g", "i", "o", "n">>, <<"z", "e", "r", "o">>}

NoFile == <<>>

Unset == [kind |-> "unset"]

(***************************************************************************)
(* Reading the files.                                                      *)
(***************************************************************************)
IsDigitField(s) == s # NaNStr /\ s # <<>> /\ \A i \in DOMAIN s : IsDigit(s[i])

RECURSIVE DropZeros(_)
DropZeros(s) ==
    IF Len(s) > 1 /\ Head(s) = "0" THEN DropZeros(Tail(s)) ELSE s

\* The number read from a field of digits: "03" is 3.
IntCell(s) == <<"int">> \o DropZeros(s)

\* pd.read_csv of one file, without dtype=: a State column whose every
\* non-empty field is a number is inferred numeric (int64, or float64 when a
\* field is empty), and its cells are numbers; otherwise the column is of
\* dtype object and its fields stay text.  The other columns of the input
\* domain are given as read.
ReadCsv(file) ==
    IF \A i \in DOMAIN file :
           file[i].State = NaNStr \/ IsDigitField(file[i].State)
    THEN [i \in DOMAIN file |->
             [file[i] EXCEPT !.State = IF @ = NaNStr THEN NaNStr ELSE IntCell(@)]]
    ELSE file

RECURSIVE Concat(_)
\* pd.concat(analytical_dfs, ignore_index=True)
Concat(dfs) == IF dfs = <<>> THEN <<>> ELSE Head(dfs) \o Concat(Tail(dfs))

\* Lines 139-143 on a list of files.
LoadFiles(files) == Concat([i \in DOMAIN files |-> ReadCsv(files[i])])

\* The concatenated State column is of dtype object exactly when some file's
\* State column held text; a wholly numeric or empty column has no .str.
StateIsObject(df) == \E i \in DOMAIN df : IsTextCell(df[i].State)

(***************************************************************************)
(* The script, from the concatenated table to the saved file.              *)
(***************************************************************************)
Init ==
    /\ pc = "Loaded"
    /\ analytical_df \in {LoadFiles(files) : files \in FileLists(RawRows)}
    /\ user_decisions = <<>>
    /\ response = <<>>
    /\ saved = NoFile
    /\ ret = Unset

\* Lines 146-154 on one row.  sort_values returns a sorted copy that the
\* script discards, so the row order is unchanged.
CleanRow(row) ==
    [row EXCEPT !.PWSID = Strip(@), !.State = ReplaceState(@)]

CleanTable(df) == [i \in DOMAIN df |-> CleanRow(df[i])]

Clean ==
    /\ pc = "Loaded"
    /\ StateIsObject(analytical_df)
    /\ analytical_df' = CleanTable(analytical_df)
    /\ pc' = "Cleaned"
    /\ UNCHANGED <<user_decisions, response, saved, ret>>

\* Line 152 on a State column that is not of dtype object: the .str accessor
\* raises AttributeError and the script ends, after line 146 stripped PWSID.
CleanFails ==
    /\ pc = "Loaded"
    /\ ~StateIsObject(analytical_df)
    /\ analytical_df' =
           [i \in DOMAIN analytical_df |->
               [analytical_df[i] EXCEPT !.PWSID = Strip(@)]]
    /\ pc' = "Failed"
    /\ UNCHANGED <<user_decisions, response, saved, ret>>

Answered == Cardinality(DOMAIN user_decisions)

\* One pass of the while loop of get_response for the next prompt.
Prompt(typed) ==
    /\ pc = "Cleaned"
    /\ Answered < Len(PromptKeys)
    /\ LET prompt == PromptKeys[Answered + 1]
           r == Lower(typed)
       IN /\ response' = r
          /\ IF ListIndexFinds(PROMPTS_DICT[prompt], r)
             THEN user_decisions' = user_decisions @@ (prompt :> r)
             ELSE UNCHANGED user_decisions
    /\ UNCHANGED <<pc, analytical_df, saved, ret>>

nd_value == user_decisions[NonDetectPrompt]

agg_value == user_decisions[SpatialPrompt]

ResolveTable(df, assumption) ==
    [i \in DOMAIN df |->
        df[i] @@ ("Processed" :> CellOf(process_nondetects(df[i], assumption)))]

Resolve ==
    /\ pc = "Cleaned"
    /\ Answered = Len(PromptKeys)
    /\ analytical_df' = ResolveTable(analytical_df, nd_value)
    /\ pc' = "Resolved"
    /\ UNCHANGED <<user_decisions, response, saved, ret>>

\* Variant: the aggregation is not conditional.
AggregationRequestedAlways(mode) == TRUE

\* agg_value != 'none'
AggregationRequested(mode) == mode # ModeNone

Aggregate ==
    /\ pc = "Resolved"
    /\ AggregationRequested(agg_value)
    /\ analytical_df' = get_aggregated_df(analytical_df, Capitalize(agg_value))
    /\ pc' = "Aggregated"
    /\ UNCHANGED <<user_decisions, response, saved, ret>>

Finalize ==
    /\ pc = "Resolved"
    /\ ~AggregationRequested(agg_value)
    /\ pc' = "Finalized"
    /\ UNCHANGED <<analytical_df, user_decisions, response, saved, ret>>

Filename(nd, agg) ==
    <<"U", "C", "M", "R", "4", "_", "N", "D", "s", "-", "a", "s", "-">> \o nd
        \o <<"_", "A", "g", "g", "-", "b", "y", "-">> \o agg

Save ==
    /\ pc \in {"Aggregated", "Finalized"}
    /\ saved = NoFile
    /\ saved' = <<[filename |-> Filename(nd_value, agg_value),
                   table |-> analytical_df]>>
    /\ UNCHANGED <<pc, analytical_df, user_decisions, response, ret>>

Next ==
    \/ Clean
    \/ CleanFails
    \/ \E typed \in TypedInputs : Prompt(typed)
    \/ Resolve
    \/ Aggregate
    \/ Finalize
    \/ Save

Spec == Init /\ [][Next]_vars

(***************************************************************************)
(* process_nondetects on its own, called with any assumption.              *)
(***************************************************************************)
InitResolve ==
    /\ pc = "call"
    /\ analytical_df \in [1..1 -> ResolveRows]
    /\ user_decisions \in {(NonDetectPrompt :> a) : a \in Assumptions}
    /\ response = <<>>
    /\ saved = NoFile
    /\ ret = Unset

CallProcessNondetects ==
    /\ pc = "call"
    /\ ret' = process_nondetects(analytical_df[1], nd_value)
    /\ pc' = "returned"
    /\ UNCHANGED <<analytical_df, user_decisions, response, saved>>

NextResolve == CallProcessNondetects

SpecResolve == InitResolve /\ [][NextResolve]_vars

(***************************************************************************)
(* get_aggregated_df on its own, on resolved tables.                       *)
(***************************************************************************)
InitAgg ==
    /\ pc = "Resolved"
    /\ \E file \in Tables(AggRows) :
           LET df == LoadFiles(<<file>>)
           IN /\ StateIsObject(df)
              /\ analytical_df = ResolveTable(CleanTable(df), PolicyHalf)
    /\ user_decisions \in
           {(NonDetectPrompt :> PolicyHalf) @@ (SpatialPrompt :> m) :
                m \in {ModeState, ModeRegion}}
    /\ response = <<>>
    /\ saved = NoFile
    /\ ret = Unset

NextAgg == Aggregate

SpecAgg == InitAgg /\ [][NextAgg]_vars

(***************************************************************************)
(* Properties.                                                             *)
(***************************************************************************)
ValidPolicies == {PolicyZero, PolicyHalf, PolicyMrl}

ValidModes == {ModeNone, ModeState, ModeRegion}

TerminalStates == {"Aggregated", "Finalized"}

PipelineSteps ==
    {<<"Loaded", "Cleaned">>, <<"Cleaned", "Resolved">>,
     <<"Resolved", "Aggregated">>, <<"Resolved", "Finalized">>}

\* The run ended by an exception: the script goes no further.
AbortSteps == {<<"Loaded", "Failed">>}

\* PROMPTS_DICT has no temporal prompt, so user_decisions never holds a
\* temporal mode: a configuration without the field asks for none.
TemporalPrompt == "temporal aggregation"

temporal_mode ==
    IF TemporalPrompt \in DOMAIN user_decisions
    THEN user_decisions[TemporalPrompt]
    ELSE ModeNone

IsAggregateRow(r) == DOMAIN r = {"Key", "Contaminant", "Min", "Average", "Max"}

IsRecordRow(r) == "Processed" \in DOMAIN r /\ "Sign" \in DOMAIN r

HasDigit(s) == s # NaNStr /\ \E i \in DOMAIN s : IsDigit(s[i])

\* The cell of a raw State field made of digits only, such as "03": the text
\* itself, or the number read_csv made of it.
IsRegionCode(s) == IsIntCell(s) \/ IsDigitField(s)

AggregateStep == pc = "Resolved" /\ pc' = "Aggregated"

\* The rows of the aggregated table that stand for the partition of record r.
RowsFor(out, r, col) ==
    {n \in DOMAIN out :
        out[n].Key = Column(r, col) /\ out[n].Contaminant = r.Contaminant}

\* C1: process_nondetects returns 0, half the MRL or the MRL for a record whose
\* sign is '<' under the policies '0', 'half' and 'mrl', and the reported value
\* unchanged under each of the three policies for a record with any other sign.
C1_ResolveByPolicy ==
    (pc = "returned" /\ nd_value \in ValidPolicies) =>
        LET row == analytical_df[1]
        IN /\ (row.Sign = "<" /\ nd_value = PolicyZero)
                  => (ret.kind = "return" /\ ret.value = Num(0))
           /\ (row.Sign = "<" /\ nd_value = PolicyHalf)
                  => (ret.kind = "return" /\ Add(ret.value, ret.value) = row.MRL)
           /\ (row.Sign = "<" /\ nd_value = PolicyMrl)
                  => (ret.kind = "return" /\ ret.value = row.MRL)
           /\ (row.Sign # "<")
                  => (ret.kind = "return" /\ ret.value = row.Value)

\* A non-detect with MRL 3 resolved to 3/2 under 'half'.
C1_Witness ==
    /\ pc = "returned"
    /\ nd_value = PolicyHalf
    /\ analytical_df[1].Sign = "<"
    /\ analytical_df[1].MRL = Num(3)
    /\ analytical_df[1].Value = Num(5)
    /\ ret = Return(<<3, 2>>)

\* C2: called with a policy outside the three recognized values,
\* process_nondetects fails with InvalidPolicy for every record and returns no
\* result value.
C2_InvalidPolicyFails ==
    (pc = "returned" /\ nd_value \notin ValidPolicies) =>
        (ret.kind = "raise" /\ ret.error = "InvalidPolicy")

\* C3: get_response stores only members of the accepted list, so the decisions
\* are complete and valid in every state where resolution or aggregation has
\* run: the policy is one of '0', 'half', 'mrl' and the mode one of 'none',
\* 'state', 'region'.
C3_ConfigurationValid ==
    /\ NonDetectPrompt \in DOMAIN user_decisions => nd_value \in ValidPolicies
    /\ SpatialPrompt \in DOMAIN user_decisions => agg_value \in ValidModes
    /\ pc \in {"Resolved", "Aggregated", "Finalized"}
           => DOMAIN user_decisions = {NonDetectPrompt, SpatialPrompt}

\* Resolution has run on the policy 'half' (typed HALF and lower-cased) and
\* the mode 'state' (typed State), the last response read.
C3_Witness ==
    /\ pc = "Resolved"
    /\ nd_value = PolicyHalf
    /\ agg_value = ModeState
    /\ response = ModeState

\* C4: the pipeline moves Loaded, Cleaned, Resolved in that order and ends in
\* Aggregated (the aggregated table is the output) exactly when the spatial or
\* the temporal mode is not 'none', in Finalized (the per-record table with
\* Processed Result is the output) exactly when both are 'none'; nothing
\* leaves a terminal state, and the saved table is the terminal one.  A run
\* that an exception ends goes no further than the state it failed in.
C4_PipelineOrder ==
    [][/\ pc' # pc => <<pc, pc'>> \in PipelineSteps \cup AbortSteps
       /\ pc' = "Aggregated" =>
              /\ agg_value' # ModeNone \/ temporal_mode' # ModeNone
              /\ \A n \in DOMAIN analytical_df' : IsAggregateRow(analytical_df'[n])
       /\ pc' = "Finalized" =>
              /\ agg_value' = ModeNone /\ temporal_mode' = ModeNone
              /\ \A n \in DOMAIN analytical_df' : IsRecordRow(analytical_df'[n])
       /\ pc \in TerminalStates => pc' = pc /\ analytical_df' = analytical_df
       /\ saved' # NoFile => pc' \in TerminalStates /\ saved'[1].table = analytical_df'
      ]_vars

\* The run ended in Aggregated by region and its table was saved.
C4_Witness ==
    /\ pc = "Aggregated"
    /\ agg_value = ModeRegion
    /\ saved # NoFile
    /\ saved[1].table = analytical_df
    /\ Len(analytical_df) = 2

\* C5: a non-detect record without an MRL makes resolution fail (MissingMRL):
\* the run never reaches Resolved with such a record in the table.
C5_MissingMRLAborts ==
    pc = "Resolved" =>
        \A i \in DOMAIN analytical_df :
            ~(analytical_df[i].Sign = "<" /\ IsNaN(analytical_df[i].MRL))

\* C6: aggregation drops no record: every resolved record, also one whose key
\* field is missing, belongs to exactly one partition of the aggregated table.
C6_NoRecordDropped ==
    [][AggregateStep =>
          \A i \in DOMAIN analytical_df :
              Cardinality(RowsFor(analytical_df', analytical_df[i],
                                  Capitalize(agg_value))) = 1
      ]_vars

\* C7: the aggregated table has exactly one row per distinct (grouping key,
\* contaminant) pair of the resolved records: as many rows as pairs, no pair
\* twice, and every row is the pair of some record.
C7_OneRowPerPair ==
    [][AggregateStep =>
          LET col == Capitalize(agg_value)
              pairs == {GroupOf(analytical_df[i], col) : i \in DOMAIN analytical_df}
              out == analytical_df'
          IN /\ Len(out) = Cardinality(pairs)
             /\ \A n, m \in DOMAIN out :
                    (out[n].Key = out[m].Key /\ out[n].Contaminant = out[m].Contaminant)
                        => n = m
             /\ \A n \in DOMAIN out : <<out[n].Key, out[n].Contaminant>> \in pairs
      ]_vars

\* C8: cleaning rewrites a State made of digits to exactly "Tribal PWS" and
\* leaves no digit in any State; the State column is then left alone, and
\* aggregation by state puts the records whose State is "Tribal PWS" and
\* whose contaminant is the same in one partition.
C8_TribalState ==
    [][/\ (pc = "Loaded" /\ pc' = "Cleaned") =>
              \A i \in DOMAIN analytical_df :
                  /\ IsRegionCode(analytical_df[i].State)
                         => analytical_df'[i].State = TribalPWS
                  /\ analytical_df[i].State = TribalPWS
                         => analytical_df'[i].State = TribalPWS
                  /\ ~HasDigit(analytical_df'[i].State)
       /\ (pc = "Cleaned" /\ pc' \in {"Cleaned", "Resolved"}) =>
              \A i \in DOMAIN analytical_df :
                  analytical_df'[i].State = analytical_df[i].State
       /\ (AggregateStep /\ agg_value = ModeState) =>
              /\ \A i, j \in DOMAIN analytical_df :
                     (/\ analytical_df[i].State = TribalPWS
                      /\ analytical_df[j].State = TribalPWS
                      /\ analytical_df[i].Contaminant = analytical_df[j].Contaminant)
                         => /\ Cardinality(RowsFor(analytical_df', analytical_df[i],
                                                   ColState)) = 1
                            /\ RowsFor(analytical_df', analytical_df[i], ColState)
                                   = RowsFor(analytical_df', analytical_df[j], ColState)
              /\ \A n \in DOMAIN analytical_df' : ~HasDigit(analytical_df'[n].Key)
      ]_vars

\* C9: in every row of the aggregated table Min <= Average <= Max, where Min
\* and Max bound the Processed Result of every record of the partition and
\* Average is their sum divided by the number of records.
C9_MinMeanMax ==
    [][AggregateStep =>
          \A n \in DOMAIN analytical_df' :
              LET row == analytical_df'[n]
                  M == {i \in DOMAIN analytical_df :
                           n \in RowsFor(analytical_df', analytical_df[i],
                                         Capitalize(agg_value))}
              IN /\ Leq(row.Min, row.Average)
                 /\ Leq(row.Average, row.Max)
                 /\ \A i \in M : /\ Leq(row.Min, analytical_df[i].Processed)
                                 /\ Leq(analytical_df[i].Processed, row.Max)
                 /\ DivBy(SumOver(analytical_df, M), Cardinality(M)) = row.Average
      ]_vars

\* C10: the rows of the aggregated table are in ascending order of the
\* grouping key and, within one key, of the contaminant name, whatever the
\* order of the input records.
C10_RowsSorted ==
    pc = "Aggregated" =>
        \A n \in 1..(Len(analytical_df) - 1) :
            LET a == analytical_df[n]
                b == analytical_df[n + 1]
            IN \/ IF agg_value = ModeRegion
                  THEN Less(a.Key, b.Key)
                  ELSE StrLess(a.Key, b.Key)
               \/ a.Key = b.Key /\ StrLess(a.Contaminant, b.Contaminant)

\* Aggregated by region: the row of region 9 comes before the row of region
\* 10, the numeric order of the keys.
C10_Witness ==
    /\ pc = "Aggregated"
    /\ agg_value = ModeRegion
    /\ Len(analytical_df) = 2
    /\ analytical_df[1].Key = Num(9)
    /\ analytical_df[2].Key = Num(10)
    /\ analytical_df[1].Contaminant = ContaminantY
    /\ analytical_df[2].Contaminant = ContaminantX

====
